---- MODULE Spec2Model ----
(***************************************************************************)
(* Appointment scheduler of the manicure booking backend.                  *)
(*                                                                         *)
(* The record store is the committed content of the appointments and       *)
(* cancelations tables.  Times are minutes on a naive wall clock.  Spec    *)
(* runs every handler as one atomic request (sequential requests);         *)
(* SpecConc splits each handler at its awaits on the store, so that the    *)
(* requests of several sessions interleave (READ COMMITTED: every          *)
(* statement sees what was committed before it).                           *)
(***************************************************************************)
EXTENDS Integers, FiniteSets, Sequences, TLC

VARIABLES
    appointments,        \* rows of table appointments (with their services)
    cancelations,        \* rows of table cancelations
    next_appointment_id, \* serial primary key of appointments
    next_cancelation_id, \* serial primary key of cancelations
    now,                 \* the current instant, in minutes of the UTC clock
    sessions,            \* the in-flight request of every session
    tz_offset,           \* UTC offset of the server's local time zone, minutes
    users,               \* rows of table users
    clients,             \* rows of table clients
    services,            \* rows of table services
    next_user_id,        \* serial primary key of users
    next_client_id,      \* serial primary key of clients
    next_service_id      \* serial primary key of services

store == <<appointments, cancelations, next_appointment_id, next_cancelation_id>>

directory == <<users, clients, next_user_id, next_client_id>>

catalog == <<services, next_service_id>>

vars == <<store, now, sessions, tz_offset, directory, catalog>>

----------------------------------------------------------------------------
(* Bounds of the model *)

MaxAppointments == 2
MaxCancelations == 2
MaxNow == 420
MaxUsers == 5
MaxClients == 4
MaxServices == 4

----------------------------------------------------------------------------
(* Values *)

NULL == "null"      \* SQL NULL / Python None, where the value is a string
None == <<>>        \* Python None, where the value is a datetime

\* a string the code searches in or compares letter by letter: its characters
Email(local) ==
    local \o <<"@", "e", "x", "a", "m", "p", "l", "e", ".", "c", "o", "m">>

\* users of seed.py: admin, user1 (role client), user2 (role staff)
SeedUsers ==
    { [id |-> 1, role |-> "admin",
       email |-> Email(<<"a", "d", "m", "i", "n">>)],
      [id |-> 2, role |-> "client",
       email |-> Email(<<"u", "s", "e", "r", "1">>)],
      [id |-> 3, role |-> "staff",
       email |-> Email(<<"u", "s", "e", "r", "2">>)] }

\* the authenticated users the appointment handlers see
Users == { [id |-> u.id, role |-> u.role] : u \in SeedUsers }

\* clients of seed.py: client1 belongs to user1, client2 to user2
SeedClients ==
    { [id |-> 1, user_id |-> 2,
       email |-> Email(<<"m", "a", "r", "i", "a">>)],
      [id |-> 2, user_id |-> 3,
       email |-> Email(<<"l", "u", "c", "i", "a">>)] }

Clients == { [id |-> c.id, user_id |-> c.user_id] : c \in SeedClients }

\* catalog of seed.py: "Manicura tradicional" 45 min, "Decoracion" 30 min
SeedServices ==
    { [id |-> 1, name |-> "Manicura tradicional", duration |-> 45],
      [id |-> 2, name |-> "Decoracion de unas", duration |-> 30] }

Services == { [id |-> s.id, duration |-> s.duration] : s \in SeedServices }

\* the time zones the server may be set to: UTC and UTC+01:00
ServerOffsets == {0, 60}

ServiceIds == { s.id : s \in Services }

AllowedStatuses == {"pending", "confirmed", "completed", "cancelled"}

CancelLeadMinutes == 180

\* a datetime: wall-clock minutes and, when it has a tzinfo, its UTC offset
NaiveDate(w) == [wall |-> w, aware |-> FALSE, offset |-> 0]

AwareDate(w, off) == [wall |-> w, aware |-> TRUE, offset |-> off]

\* make_naive with the tzinfo dropped as it stands, without astimezone(utc)
make_naive_DropOffset(dt) ==
    IF dt.aware THEN NaiveDate(dt.wall) ELSE dt

\* an aware datetime is converted to UTC and loses its tzinfo; a naive one is
\* returned as it is
make_naive(dt) ==
    IF dt.aware THEN NaiveDate(dt.wall - dt.offset) ELSE dt

RECURSIVE SumDuration(_)
SumDuration(ss) ==
    IF ss = {} THEN 0
    ELSE LET s == CHOOSE x \in ss : TRUE
         IN  s.duration + SumDuration(ss \ {s})

\* services_found: the catalog rows whose id is among the requested ids
ServicesFound(ids) == { s \in Services : s.id \in ids }

\* duration of a stored appointment: the sum over its associated services
AppointmentDuration(a) == SumDuration(ServicesFound(a.services))

AppointmentEnd(a) == a.date + AppointmentDuration(a)

----------------------------------------------------------------------------
(* Store lookups *)

AppointmentIds == { a.id : a \in appointments }

AppointmentById(id) == CHOOSE a \in appointments : a.id = id

CancelationsOf(id) == { c \in cancelations : c.appointment_id = id }

ClientExists(client_id) == \E c \in Clients : c.id = client_id

\* SQL comparison column != value: NULL compares as unknown, the row is dropped
SqlNotEqual(column, value) == column # NULL /\ column # value

\* The conflict query of create_appointment: appointments JOIN services,
\* WHERE status != 'cancelled' AND date < appointment_end, GROUP BY id,
\* HAVING date + sum(duration) > appointment_start AND count(service.id) > 0.
\* (make_interval takes sum(duration * 60) seconds: the same minutes.)
ConflictQuery(appts, appointment_start, appointment_end) ==
    LET joined == { r \in appts \X Services : r[2].id \in r[1].services }
        filtered == { r \in joined :
                        /\ SqlNotEqual(r[1].status, "cancelled")
                        /\ r[1].date < appointment_end }
        group(a) == { r \in filtered : r[1].id = a.id }
    IN  { a \in { r[1] : r \in filtered } :
            /\ a.date + SumDuration({ r[2] : r \in group(a) }) > appointment_start
            /\ Cardinality(group(a)) > 0 }

\* send_notification_email(email, subject, html) is called with the keywords
\* email, subject, html_body: the call binds only if every keyword is a parameter
NotificationParameters == {"email", "subject", "html"}

NotificationKeywords == {"email", "subject", "html_body"}

NotificationSent == NotificationKeywords = NotificationParameters

Range(seq) == { seq[i] : i \in DOMAIN seq }

----------------------------------------------------------------------------
(* create_appointment *)

\* the checks of create_appointment before the insert, on the committed rows appts
CreateCheck(appts, client_id, date, service_ids) ==
    LET services_found == ServicesFound(Range(service_ids))
        total_duration == SumDuration(services_found)
        appointment_start == make_naive(date)
        appointment_end ==
            make_naive(NaiveDate(appointment_start.wall + total_duration))
    IN  IF ~ClientExists(client_id) THEN "client_not_found"
        ELSE IF Len(service_ids) = 0 THEN "no_services"
        ELSE IF Cardinality(services_found) # Len(service_ids) THEN "services_not_found"
        ELSE IF ConflictQuery(appts, appointment_start.wall,
                                 appointment_end.wall) # {}
             THEN "slot_unavailable"
        ELSE "insert"

\* NewAppointment with the date stored as sent, tzinfo dropped, in place of
\* the normalized one
NewAppointment_RawDate(id, client_id, date, service_ids, notes) ==
    [ id        |-> id,
      client_id |-> client_id,
      date      |-> date.wall,
      status    |-> "pending",
      notes     |-> notes,
      services  |-> { s.id : s \in ServicesFound(Range(service_ids)) } ]

\* the row create_appointment inserts (status takes the column default)
NewAppointment(id, client_id, date, service_ids, notes) ==
    [ id        |-> id,
      client_id |-> client_id,
      date      |-> make_naive(date).wall,
      status    |-> "pending",
      notes     |-> notes,
      services  |-> { s.id : s \in ServicesFound(Range(service_ids)) } ]

\* what the request returns once the row is committed: the notification follows
CreateReturn == IF NotificationSent THEN "created" ELSE "internal_error"

Create(client_id, date, service_ids, notes) ==
    LET check == CreateCheck(appointments, client_id, date, service_ids)
    IN  /\ IF check = "insert"
           THEN /\ next_appointment_id <= MaxAppointments
                /\ appointments' = appointments \cup
                       { NewAppointment(next_appointment_id, client_id, date,
                                        service_ids, notes) }
                /\ next_appointment_id' = next_appointment_id + 1
           ELSE /\ UNCHANGED <<appointments, next_appointment_id>>
        /\ UNCHANGED <<cancelations, next_cancelation_id, now, sessions,
                   tz_offset, directory, catalog>>

----------------------------------------------------------------------------
(* update_appointment, delete_appointment *)

\* the owner check shared by update, delete and cancel
Authorized(current_user, appointment) ==
    current_user.role = "admin" \/ appointment.client_id = current_user.id

\* AppointmentUpdate.status_allowed: None passes, any other value must be allowed
status_allowed(v) == ~(v # NULL /\ v \notin AllowedStatuses)

\* A patch is the dict of model_dump(exclude_unset=True): its keys are the
\* fields the request body mentions.
IsSet(patch, field) == field \in DOMAIN patch

\* the DateTime column refuses the value
DataError == <<"DataError", "DataError">>

\* The patch as the DateTime column (TIMESTAMP WITHOUT TIME ZONE) binds it.
\* update_appointment hands the datetime of the request to the column as it
\* is.  A naive one is stored as it stands.  What becomes of an aware one is
\* the database driver's choice, and DATABASE_URL leaves the driver open: it
\* is refused (asyncpg), stored with its offset dropped (the string format of
\* SQLite, the session time zone of the offset), or stored converted to the
\* session time zone, which is UTC at best.
DateTimeBind(patch) ==
    IF IsSet(patch, "date") /\ patch.date # None /\ patch.date[1].aware
    THEN { [patch EXCEPT !.date = d] :
             d \in { DataError,
                     <<NaiveDate(patch.date[1].wall)>>,
                     <<make_naive(patch.date[1])>> } }
    ELSE { patch }

\* setattr of every item of the patch: date, notes and status are mapped
\* columns; service_ids and cancelled are no attributes of the Appointment
\* mapping, so setting them writes nothing to the row.  (A date of None or
\* a refused one fails the commit, see UpdateReturn.)
ApplyPatch(appointment, patch) ==
    [ appointment EXCEPT
        !.date   = IF IsSet(patch, "date") /\ patch.date \notin {None, DataError}
                   THEN patch.date[1].wall ELSE @,
        !.notes  = IF IsSet(patch, "notes") THEN patch.notes ELSE @,
        !.status = IF IsSet(patch, "status") THEN patch.status ELSE @ ]

\* the checks of update_appointment up to its commit
UpdateCheck(appts, appointment_id, patch, current_user) ==
    IF IsSet(patch, "status") /\ ~status_allowed(patch.status) THEN "invalid"
    ELSE IF ~(\E a \in appts : a.id = appointment_id) THEN "not_found"
    ELSE IF ~Authorized(current_user,
                        CHOOSE a \in appts : a.id = appointment_id)
         THEN "forbidden"
    ELSE "commit"

\* the commit of update_appointment: date is NOT NULL and a refused datetime
\* is an error of the statement (the commit fails and rolls back);
\* AppointmentRead needs a str status (the response fails after the commit)
UpdateReturn(patch, updated) ==
    IF IsSet(patch, "date") /\ patch.date \in {None, DataError}
    THEN "integrity_error"
    ELSE IF updated.status = NULL THEN "internal_error"
    ELSE "ok"

Update(appointment_id, patch, current_user) ==
    LET check == UpdateCheck(appointments, appointment_id, patch, current_user)
        appointment == AppointmentById(appointment_id)
    IN  /\ IF check = "commit"
           THEN \E bound \in DateTimeBind(patch) :
                  LET updated == ApplyPatch(appointment, bound)
                  IN  appointments' =
                        IF UpdateReturn(bound, updated) = "integrity_error"
                        THEN appointments
                        ELSE (appointments \ {appointment}) \cup {updated}
           ELSE /\ UNCHANGED appointments
        /\ UNCHANGED <<cancelations, next_appointment_id, next_cancelation_id,
                       now, sessions,
                   tz_offset, directory, catalog>>

DeleteCheck(appts, appointment_id, current_user) ==
    IF ~(\E a \in appts : a.id = appointment_id) THEN "not_found"
    ELSE IF ~Authorized(current_user,
                        CHOOSE a \in appts : a.id = appointment_id)
         THEN "forbidden"
    ELSE "commit"

\* db.delete: the cancelation relationship has no delete cascade, so the flush
\* first sets appointment_id of the appointment's cancelations to NULL; the
\* column is NOT NULL, the flush fails and nothing is deleted.
DeleteReturn(cancs, appointment_id) ==
    IF \E c \in cancs : c.appointment_id = appointment_id
    THEN "integrity_error" ELSE "ok"

Delete(appointment_id, current_user) ==
    LET check == DeleteCheck(appointments, appointment_id, current_user)
    IN  /\ IF check = "commit"
           THEN /\ appointments' =
                       IF DeleteReturn(cancelations, appointment_id) = "ok"
                       THEN appointments \ {AppointmentById(appointment_id)}
                       ELSE appointments
           ELSE /\ UNCHANGED appointments
        /\ UNCHANGED <<cancelations, next_appointment_id, next_cancelation_id,
                       now, sessions,
                   tz_offset, directory, catalog>>

----------------------------------------------------------------------------
(* cancel_appointment, complete_appointment *)

\* datetime.now(): the naive wall clock of the server's time zone, which is
\* offset minutes ahead of UTC
datetime_now(offset) == NaiveDate(now + offset)

\* the checks of cancel_appointment up to its commit; clock is the reading
\* make_naive(datetime.now())
CancelCheck(appts, appointment_id, current_user, clock) ==
    IF ~(\E a \in appts : a.id = appointment_id) THEN "not_found"
    ELSE LET appointment == CHOOSE a \in appts : a.id = appointment_id
         IN  IF ~Authorized(current_user, appointment) THEN "forbidden"
             ELSE IF appointment.status = "cancelled" THEN "already_cancelled"
             ELSE IF appointment.date - clock <= CancelLeadMinutes THEN "too_late"
             ELSE "commit"

NewCancelation(id, appointment_id, reason) ==
    [ id |-> id, appointment_id |-> appointment_id, reason |-> reason ]

\* CancelWrites with the status committed on its own, the cancelation left
\* to a later commit
CancelWrites_StatusOnly(appts, cancs, appointment_id, cancelation_id, reason) ==
    [ appointments |->
          { IF a.id = appointment_id THEN [a EXCEPT !.status = "cancelled"] ELSE a
            : a \in appts },
      cancelations |-> cancs ]

\* the one commit of cancel_appointment that flushes both writes
CancelWrites(appts, cancs, appointment_id, cancelation_id, reason) ==
    [ appointments |->
          { IF a.id = appointment_id THEN [a EXCEPT !.status = "cancelled"] ELSE a
            : a \in appts },
      cancelations |->
          cancs \cup { NewCancelation(cancelation_id, appointment_id, reason) } ]

Cancel(appointment_id, reason, current_user) ==
    LET check == CancelCheck(appointments, appointment_id, current_user,
                             make_naive(datetime_now(tz_offset)).wall)
        writes == CancelWrites(appointments, cancelations, appointment_id,
                               next_cancelation_id, reason)
    IN  /\ IF check = "commit"
           THEN /\ next_cancelation_id <= MaxCancelations
                /\ appointments' = writes.appointments
                /\ cancelations' = writes.cancelations
                /\ next_cancelation_id' = next_cancelation_id + 1
           ELSE /\ UNCHANGED <<appointments, cancelations, next_cancelation_id>>
        /\ UNCHANGED <<next_appointment_id, now, sessions,
                   tz_offset, directory, catalog>>

\* get_current_staff_or_admin and the role check of complete_appointment_endpoint
StaffOrAdmin(current_user) == current_user.role \in {"staff", "admin"}

CompleteCheck(appts, appointment_id, current_user) ==
    IF ~StaffOrAdmin(current_user) THEN "forbidden"
    ELSE IF ~(\E a \in appts : a.id = appointment_id) THEN "not_found"
    ELSE LET appointment == CHOOSE a \in appts : a.id = appointment_id
         IN  IF appointment.status = "completed" THEN "already_completed"
             ELSE IF appointment.status = "cancelled"
                  THEN "cannot_complete_cancelled"
             ELSE "commit"

\* CompleteWrites with the status written to every row
CompleteWrites_AllRows(appts, appointment_id) ==
    { [a EXCEPT !.status = "completed"] : a \in appts }

CompleteWrites(appts, appointment_id) ==
    { IF a.id = appointment_id THEN [a EXCEPT !.status = "completed"] ELSE a
      : a \in appts }

Complete(appointment_id, current_user) ==
    LET check == CompleteCheck(appointments, appointment_id, current_user)
    IN  /\ IF check = "commit"
           THEN /\ appointments' = CompleteWrites(appointments, appointment_id)
           ELSE /\ UNCHANGED appointments
        /\ UNCHANGED <<cancelations, next_appointment_id, next_cancelation_id,
                       now, sessions,
                   tz_offset, directory, catalog>>

----------------------------------------------------------------------------
(* get_blocked_slots *)

\* SQL column IN (values): NULL compares as unknown, the row is dropped
SqlIn(column, values) == column # NULL /\ column \in values

\* the rows the query of get_blocked_slots selects for the requesting user
BlockedAppointments(appts, user) ==
    { a \in appts :
        /\ SqlIn(a.status, {"pending", "confirmed"})
        /\ a.client_id # user.id }

\* datetime.isoformat of a naive datetime, minutes precision: hours, minutes
isoformat(minutes) == <<minutes \div 60, minutes % 60>>

\* BlockedSlot(start=..., end=...) for one selected row
BlockedSlot(appt) ==
    LET duration == SumDuration(ServicesFound(appt.services))
        start == appt.date
        end == start + duration
    IN  [ start |-> isoformat(start), end |-> isoformat(end) ]

\* the response of get_blocked_slots: one slot for every selected row (the
\* query has no ORDER BY; the slots are kept here by the row they come from)
get_blocked_slots(appts, user) ==
    [ id \in { a.id : a \in BlockedAppointments(appts, user) } |->
          BlockedSlot(CHOOSE a \in appts : a.id = id) ]

\* time passes between requests
Tick ==
    /\ now < MaxNow
    /\ now' = now + 1
    /\ UNCHANGED <<store, sessions,
                   tz_offset, directory, catalog>>

----------------------------------------------------------------------------
(* Requests the clients send *)

RequestClientIds == {2, 9}

RequestDates ==
    { NaiveDate(600), NaiveDate(630), NaiveDate(645),
      AwareDate(705, 60), AwareDate(585, -60) }

RequestServiceIds == { <<>>, <<1>>, <<2>>, <<1, 2>>, <<1, 1>>, <<1, 3>> }

RequestNotes == { NULL }

RequestReasons == { "ill" }

RequestAppointmentIds == 1 .. (MaxAppointments + 1)

\* request bodies of PATCH: one field each (a body with several fields writes
\* what the one-field bodies write one after the other)
RequestPatches ==
    { [date |-> d] :
        d \in { <<NaiveDate(600)>>, <<NaiveDate(630)>>, <<NaiveDate(645)>>,
                <<AwareDate(630, 30)>>, None } }
    \cup { [status |-> s] : s \in AllowedStatuses \cup { NULL, "done" } }
    \cup { [service_ids |-> <<2>>], [cancelled |-> TRUE] }

Idle == [pc |-> "idle"]

SessionIds == {1, 2}

Init ==
    /\ appointments = {}
    /\ cancelations = {}
    /\ next_appointment_id = 1
    /\ next_cancelation_id = 1
    /\ now = 419
    /\ sessions = [s \in SessionIds |-> Idle]
    /\ tz_offset \in ServerOffsets
    /\ users = SeedUsers
    /\ clients = SeedClients
    /\ services = SeedServices
    /\ next_user_id = Cardinality(SeedUsers) + 1
    /\ next_client_id = Cardinality(SeedClients) + 1
    /\ next_service_id = Cardinality(SeedServices) + 1

Next ==
    \/ \E c \in RequestClientIds, d \in RequestDates,
          s \in RequestServiceIds, n \in RequestNotes : Create(c, d, s, n)
    \/ \E id \in RequestAppointmentIds, p \in RequestPatches, u \in Users :
          Update(id, p, u)
    \/ \E id \in RequestAppointmentIds, u \in Users : Delete(id, u)
    \/ \E id \in RequestAppointmentIds, r \in RequestReasons, u \in Users :
          Cancel(id, r, u)
    \/ \E id \in RequestAppointmentIds, u \in Users : Complete(id, u)
    \/ Tick

Spec == Init /\ [][Next]_vars

----------------------------------------------------------------------------
(* The handlers step by step: every session runs one request at a time and  *)
(* gives way to the other sessions at each await on the store.               *)

InFlight(s) == sessions[s].pc # "idle"

Finish(s) == sessions' = [sessions EXCEPT ![s] = Idle]

RowExists(appointment_id) == appointment_id \in AppointmentIds

\* create_appointment up to the conflict query: the request ends on an
\* HTTPException or goes on to the insert
CreateScan(s, client_id, date, service_ids, notes) ==
    /\ ~InFlight(s)
    /\ sessions' = [sessions EXCEPT ![s] =
           IF CreateCheck(appointments, client_id, date, service_ids) = "insert"
           THEN [ pc |-> "create_commit", client_id |-> client_id, date |-> date,
                  service_ids |-> service_ids, notes |-> notes ]
           ELSE Idle]
    /\ UNCHANGED <<store, now,
                   tz_offset, directory, catalog>>

\* db.add and commit: nothing in the store refuses the row
CreateCommit(s) ==
    /\ sessions[s].pc = "create_commit"
    /\ next_appointment_id <= MaxAppointments
    /\ appointments' = appointments \cup
           { NewAppointment(next_appointment_id, sessions[s].client_id,
                            sessions[s].date, sessions[s].service_ids,
                            sessions[s].notes) }
    /\ next_appointment_id' = next_appointment_id + 1
    /\ sessions' = [sessions EXCEPT ![s] =
           [pc |-> "create_notify", id |-> next_appointment_id]]
    /\ UNCHANGED <<cancelations, next_cancelation_id, now,
                   tz_offset, directory, catalog>>

\* the notification and the response, after the commit
CreateNotify(s) ==
    /\ sessions[s].pc = "create_notify"
    /\ Finish(s)
    /\ UNCHANGED <<store, now,
                   tz_offset, directory, catalog>>

\* update_appointment up to its commit: the row is loaded into the session
UpdateLoad(s, appointment_id, patch, current_user) ==
    /\ ~InFlight(s)
    /\ sessions' = [sessions EXCEPT ![s] =
           IF UpdateCheck(appointments, appointment_id, patch, current_user) = "commit"
           THEN [ pc |-> "update_commit", id |-> appointment_id, patch |-> patch,
                  loaded |-> AppointmentById(appointment_id) ]
           ELSE Idle]
    /\ UNCHANGED <<store, now,
                   tz_offset, directory, catalog>>

\* the flush writes the columns whose value differs from the loaded one
FlushColumns(row, loaded, changed) ==
    [ row EXCEPT
        !.date   = IF changed.date # loaded.date THEN changed.date ELSE @,
        !.notes  = IF changed.notes # loaded.notes THEN changed.notes ELSE @,
        !.status = IF changed.status # loaded.status THEN changed.status ELSE @ ]

\* commit of update_appointment: an UPDATE that matches no row, or a date of
\* None, fails the commit
UpdateCommit(s) ==
    /\ sessions[s].pc = "update_commit"
    /\ \E bound \in DateTimeBind(sessions[s].patch) :
         LET id == sessions[s].id
             loaded == sessions[s].loaded
             changed == ApplyPatch(loaded, bound)
         IN  appointments' =
               IF \/ UpdateReturn(bound, changed) = "integrity_error"
                  \/ changed = loaded
                  \/ ~RowExists(id)
               THEN appointments
               ELSE (appointments \ {AppointmentById(id)})
                        \cup {FlushColumns(AppointmentById(id), loaded, changed)}
    /\ Finish(s)
    /\ UNCHANGED <<cancelations, next_appointment_id, next_cancelation_id, now,
                   tz_offset, directory, catalog>>

DeleteLoad(s, appointment_id, current_user) ==
    /\ ~InFlight(s)
    /\ sessions' = [sessions EXCEPT ![s] =
           IF DeleteCheck(appointments, appointment_id, current_user) = "commit"
           THEN [pc |-> "delete_commit", id |-> appointment_id]
           ELSE Idle]
    /\ UNCHANGED <<store, now,
                   tz_offset, directory, catalog>>

DeleteCommit(s) ==
    /\ sessions[s].pc = "delete_commit"
    /\ LET id == sessions[s].id
       IN  appointments' =
             IF RowExists(id) /\ DeleteReturn(cancelations, id) = "ok"
             THEN appointments \ {AppointmentById(id)}
             ELSE appointments
    /\ Finish(s)
    /\ UNCHANGED <<cancelations, next_appointment_id, next_cancelation_id, now,
                   tz_offset, directory, catalog>>

\* cancel_appointment up to the lead-time check
CancelLoad(s, appointment_id, reason, current_user) ==
    /\ ~InFlight(s)
    /\ sessions' = [sessions EXCEPT ![s] =
           IF CancelCheck(appointments, appointment_id, current_user,
                          make_naive(datetime_now(tz_offset)).wall) = "commit"
           THEN [pc |-> "cancel_commit", id |-> appointment_id, reason |-> reason]
           ELSE Idle]
    /\ UNCHANGED <<store, now,
                   tz_offset, directory, catalog>>

\* the first commit of cancel_appointment: the UPDATE of the status and the
\* INSERT of the cancelation are one transaction; when the row is gone the
\* transaction fails as a whole
CancelCommit(s) ==
    /\ sessions[s].pc = "cancel_commit"
    /\ IF RowExists(sessions[s].id)
       THEN LET writes == CancelWrites(appointments, cancelations, sessions[s].id,
                                       next_cancelation_id, sessions[s].reason)
            IN  /\ next_cancelation_id <= MaxCancelations
                /\ appointments' = writes.appointments
                /\ cancelations' = writes.cancelations
                /\ next_cancelation_id' = next_cancelation_id + 1
                /\ sessions' = [sessions EXCEPT ![s] =
                       [ pc |-> "cancel_finish", id |-> sessions[s].id,
                         cancelation_id |-> next_cancelation_id ]]
       ELSE /\ Finish(s)
            /\ UNCHANGED <<appointments, cancelations, next_cancelation_id>>
    /\ UNCHANGED <<next_appointment_id, now,
                   tz_offset, directory, catalog>>

\* refresh, the second assignment of the status (no change to flush) and the
\* second commit, which writes nothing
CancelFinish(s) ==
    /\ sessions[s].pc = "cancel_finish"
    /\ Finish(s)
    /\ UNCHANGED <<store, now,
                   tz_offset, directory, catalog>>

CompleteLoad(s, appointment_id, current_user) ==
    /\ ~InFlight(s)
    /\ sessions' = [sessions EXCEPT ![s] =
           IF CompleteCheck(appointments, appointment_id, current_user) = "commit"
           THEN [pc |-> "complete_commit", id |-> appointment_id]
           ELSE Idle]
    /\ UNCHANGED <<store, now,
                   tz_offset, directory, catalog>>

\* (an UPDATE that matches no row fails the commit: nothing is written)
CompleteCommit(s) ==
    /\ sessions[s].pc = "complete_commit"
    /\ appointments' = CompleteWrites(appointments, sessions[s].id)
    /\ Finish(s)
    /\ UNCHANGED <<cancelations, next_appointment_id, next_cancelation_id, now,
                   tz_offset, directory, catalog>>

\* a request that dies between two steps (connection lost, task cancelled):
\* the session rolls back what it has not committed
Abort(s) ==
    /\ InFlight(s)
    /\ Finish(s)
    /\ UNCHANGED <<store, now,
                   tz_offset, directory, catalog>>

ConcDates == { NaiveDate(600), NaiveDate(645) }

ConcPatches == { [status |-> "confirmed"], [status |-> "cancelled"] }

Admin == CHOOSE u \in Users : u.role = "admin"

NextConc ==
    \/ \E s \in SessionIds, d \in ConcDates : CreateScan(s, 2, d, <<1>>, NULL)
    \/ \E s \in SessionIds : CreateCommit(s)
    \/ \E s \in SessionIds : CreateNotify(s)
    \/ \E s \in SessionIds, id \in 1 .. MaxAppointments, p \in ConcPatches :
          UpdateLoad(s, id, p, Admin)
    \/ \E s \in SessionIds : UpdateCommit(s)
    \/ \E s \in SessionIds, id \in 1 .. MaxAppointments : DeleteLoad(s, id, Admin)
    \/ \E s \in SessionIds : DeleteCommit(s)
    \/ \E s \in SessionIds, id \in 1 .. MaxAppointments, r \in RequestReasons :
          CancelLoad(s, id, r, Admin)
    \/ \E s \in SessionIds : CancelCommit(s)
    \/ \E s \in SessionIds : CancelFinish(s)
    \/ \E s \in SessionIds, id \in 1 .. MaxAppointments : CompleteLoad(s, id, Admin)
    \/ \E s \in SessionIds : CompleteCommit(s)
    \/ \E s \in SessionIds : Abort(s)
    \/ Tick

SpecConc == Init /\ [][NextConc]_vars

----------------------------------------------------------------------------
(* create_user, create_client and register: the users and clients tables *)

get_user_by_email(rows, email) == { u \in rows : u.email = email }

\* the check of create_user before its insert
CreateUserCheck(rows, email) ==
    IF get_user_by_email(rows, email) # {} THEN "email_registered" ELSE "insert"

NewUser(id, email, role) == [ id |-> id, role |-> role, email |-> email ]

\* INSERT INTO users: email is unique
UserInsert(rows, row) ==
    IF \E u \in rows : u.email = row.email THEN "integrity_error" ELSE "ok"

\* CreateClientCheck looking only at the clients of the same user
CreateClientCheck_PerUser(rows, email, user_id) ==
    IF \E c \in rows : c.email = email /\ c.user_id = user_id
    THEN "email_exists" ELSE "insert"

\* the check of create_client before its insert (user_id takes no part)
CreateClientCheck(rows, email, user_id) ==
    IF \E c \in rows : c.email = email THEN "email_exists" ELSE "insert"

NewClient(id, user_id, email) ==
    [ id |-> id, user_id |-> user_id, email |-> email ]

\* ClientInsert without the unique constraint on user_id
ClientInsert_SharedUser(user_rows, rows, row) ==
    IF \/ \E c \in rows : c.email = row.email
       \/ ~(\E u \in user_rows : u.id = row.user_id)
    THEN "integrity_error" ELSE "ok"

\* INSERT INTO clients: email is unique, user_id is unique and references
\* users.id
ClientInsert(user_rows, rows, row) ==
    IF \/ \E c \in rows : c.email = row.email
       \/ \E c \in rows : c.user_id = row.user_id
       \/ ~(\E u \in user_rows : u.id = row.user_id)
    THEN "integrity_error" ELSE "ok"

\* register up to the check of create_user
RegisterStart(s, email, role) ==
    /\ ~InFlight(s)
    /\ sessions' = [sessions EXCEPT ![s] =
           IF CreateUserCheck(users, email) = "insert"
           THEN [pc |-> "user_commit", email |-> email, role |-> role]
           ELSE Idle]
    /\ UNCHANGED <<store, now, tz_offset, directory, catalog>>

\* db.add(db_user) and the commit of create_user; the sequence value is
\* spent whether or not the INSERT goes through
UserCommit(s) ==
    /\ sessions[s].pc = "user_commit"
    /\ next_user_id <= MaxUsers
    /\ next_user_id' = next_user_id + 1
    /\ LET row == NewUser(next_user_id, sessions[s].email, sessions[s].role)
       IN  IF UserInsert(users, row) = "ok"
           THEN /\ users' = users \cup {row}
                /\ sessions' = [sessions EXCEPT ![s] =
                       [ pc |-> "register_client", email |-> row.email,
                         user_id |-> row.id ]]
           ELSE /\ UNCHANGED users
                /\ Finish(s)
    /\ UNCHANGED <<store, now, tz_offset, clients, next_client_id, catalog>>

\* register goes on to create_client with the new user's id and the same
\* email: the check of create_client
RegisterClient(s) ==
    /\ sessions[s].pc = "register_client"
    /\ sessions' = [sessions EXCEPT ![s] =
           IF CreateClientCheck(clients, sessions[s].email, sessions[s].user_id)
                  = "insert"
           THEN [ pc |-> "client_commit", email |-> sessions[s].email,
                  user_id |-> sessions[s].user_id ]
           ELSE Idle]
    /\ UNCHANGED <<store, now, tz_offset, directory, catalog>>

\* create_client called with a user_id of the caller's choice, up to its check
CreateClientStart(s, email, user_id) ==
    /\ ~InFlight(s)
    /\ sessions' = [sessions EXCEPT ![s] =
           IF CreateClientCheck(clients, email, user_id) = "insert"
           THEN [pc |-> "client_commit", email |-> email, user_id |-> user_id]
           ELSE Idle]
    /\ UNCHANGED <<store, now, tz_offset, directory, catalog>>

\* db.add(new_client) and the commit of create_client
ClientCommit(s) ==
    /\ sessions[s].pc = "client_commit"
    /\ next_client_id <= MaxClients
    /\ next_client_id' = next_client_id + 1
    /\ LET row == NewClient(next_client_id, sessions[s].user_id, sessions[s].email)
       IN  IF ClientInsert(users, clients, row) = "ok"
           THEN clients' = clients \cup {row}
           ELSE UNCHANGED clients
    /\ Finish(s)
    /\ UNCHANGED <<store, now, tz_offset, users, next_user_id, catalog>>

\* str.lower / the case folding of ILIKE, on the letters the requests use
Lower(ch) ==
    CASE ch = "A" -> "a"
      [] ch = "I" -> "i"
      [] ch = "M" -> "m"
      [] ch = "R" -> "r"
      [] OTHER -> ch

LowerSeq(text) == [ i \in DOMAIN text |-> Lower(text[i]) ]

Contains(text, part) ==
    \E i \in 0 .. (Len(text) - Len(part)) :
        SubSeq(text, i + 1, i + Len(part)) = part

\* column ILIKE '%search%'
ilike(value, search) == Contains(LowerSeq(value), LowerSeq(search))

\* the rows of a result in the order the table returns them (by id)
RECURSIVE RowsById(_)
RowsById(rows) ==
    IF rows = {} THEN <<>>
    ELSE LET first == CHOOSE r \in rows : \A o \in rows : r.id <= o.id
         IN  <<first>> \o RowsById(rows \ {first})

\* get_clients: the filter, the count, OFFSET skip LIMIT limit, the page
\* arithmetic (// is the floor division of non-negative integers)
get_clients(rows, skip, limit, search) ==
    LET query == IF search # <<>>
                 THEN { c \in rows : ilike(c.email, search) } ELSE rows
        total == Cardinality(query)
        listed == RowsById(query)
        last == IF skip + limit < total THEN skip + limit ELSE total
        items == SubSeq(listed, skip + 1, last)
        page == IF limit # 0 THEN (skip \div limit) + 1 ELSE 1
        total_pages == IF limit # 0 THEN (total + limit - 1) \div limit ELSE 1
    IN  [ info |-> [ page |-> page, per_page |-> limit, total |-> total,
                     total_pages |-> total_pages ],
          data |-> items ]

RequestSkips == { 0, 1, 2, 5 }

RequestLimits == { 0, 1, 2, 20 }

RequestSearches ==
    { <<>>, <<"@", "e", "x">>, <<"M", "A", "R", "I">>, <<"z", "z">> }

RequestEmails ==
    { Email(<<"n", "e", "w">>), Email(<<"m", "a", "r", "i", "a">>),
      Email(<<"u", "s", "e", "r", "1">>) }

RequestRoles == { "client" }

RequestUserIds == { 1, 2, 4, 9 }

NextDirectory ==
    \/ \E s \in SessionIds, e \in RequestEmails, r \in RequestRoles :
          RegisterStart(s, e, r)
    \/ \E s \in SessionIds : UserCommit(s)
    \/ \E s \in SessionIds : RegisterClient(s)
    \/ \E s \in SessionIds, e \in RequestEmails, u \in RequestUserIds :
          CreateClientStart(s, e, u)
    \/ \E s \in SessionIds : ClientCommit(s)
    \/ \E s \in SessionIds : Abort(s)

SpecDirectory == Init /\ [][NextDirectory]_vars

----------------------------------------------------------------------------
(* create_service: the services table *)

\* the check of create_service before its insert
CreateServiceCheck(rows, name) ==
    IF \E r \in rows : r.name = name THEN "name_exists" ELSE "insert"

\* Service(**service.dict()): the duration is stored as it was sent
NewService(id, name, duration) ==
    [ id |-> id, name |-> name, duration |-> duration ]

\* INSERT INTO services: name is unique
ServiceInsert(rows, row) ==
    IF \E r \in rows : r.name = row.name THEN "integrity_error" ELSE "ok"

ServiceStart(s, name, duration) ==
    /\ ~InFlight(s)
    /\ sessions' = [sessions EXCEPT ![s] =
           IF CreateServiceCheck(services, name) = "insert"
           THEN [pc |-> "service_commit", name |-> name, duration |-> duration]
           ELSE Idle]
    /\ UNCHANGED <<store, now, tz_offset, directory, catalog>>

ServiceCommit(s) ==
    /\ sessions[s].pc = "service_commit"
    /\ next_service_id <= MaxServices
    /\ next_service_id' = next_service_id + 1
    /\ LET row == NewService(next_service_id, sessions[s].name,
                             sessions[s].duration)
       IN  IF ServiceInsert(services, row) = "ok"
           THEN services' = services \cup {row}
           ELSE UNCHANGED services
    /\ Finish(s)
    /\ UNCHANGED <<store, now, tz_offset, directory>>

RequestServiceNames == { "Manicura tradicional", "Gel", "Spa" }

RequestDurations == { -15, 0, 30 }

NextCatalog ==
    \/ \E s \in SessionIds, n \in RequestServiceNames, d \in RequestDurations :
          ServiceStart(s, n, d)
    \/ \E s \in SessionIds : ServiceCommit(s)
    \/ \E s \in SessionIds : Abort(s)

SpecCatalog == Init /\ [][NextCatalog]_vars

----------------------------------------------------------------------------
(* Properties *)

Overlap(a, b) == a.date < AppointmentEnd(b) /\ b.date < AppointmentEnd(a)

Terminal(a) == a.status \in {"completed", "cancelled"}

\* C1: no two stored appointments whose status is not 'cancelled' have
\* overlapping half-open intervals [date, date + sum of service durations),
\* in every state reached by sequential create, update, cancel, complete and
\* delete requests.
C1_NoOverlap ==
    \A a, b \in appointments :
        (a.id # b.id /\ a.status # "cancelled" /\ b.status # "cancelled")
            => ~Overlap(a, b)

\* C2: two create requests with overlapping candidate intervals that run
\* concurrently never both persist their appointment: no state has two
\* sessions past the commit of create whose inserted rows are both stored,
\* both not cancelled, and overlap.
C2_OneOfTwoConcurrentCreates ==
    \A s1, s2 \in SessionIds :
        ( /\ s1 # s2
          /\ sessions[s1].pc = "create_notify"
          /\ sessions[s2].pc = "create_notify"
          /\ RowExists(sessions[s1].id)
          /\ RowExists(sessions[s2].id) )
        => LET a == AppointmentById(sessions[s1].id)
               b == AppointmentById(sessions[s2].id)
           IN  ~(a.status # "cancelled" /\ b.status # "cancelled" /\ Overlap(a, b))

\* the requests C3 and C4 speak of: an existing client and a non-empty list of
\* distinct service ids that all resolve
ValidCreateRequests ==
    { r \in [client_id : RequestClientIds, date : RequestDates,
             service_ids : RequestServiceIds] :
        /\ ClientExists(r.client_id)
        /\ Len(r.service_ids) > 0
        /\ Range(r.service_ids) \subseteq ServiceIds
        /\ Cardinality(Range(r.service_ids)) = Len(r.service_ids) }

CandidateStart(r) == make_naive(r.date).wall

CandidateEnd(r) ==
    make_naive(r.date).wall + SumDuration(ServicesFound(Range(r.service_ids)))

\* C3: for an existing client and a non-empty, fully resolvable service_ids,
\* create is rejected as slot-unavailable if and only if some stored
\* appointment with status != 'cancelled' and at least one service has
\* S < end_time and E > start_time; otherwise the appointment is inserted.
C3_RejectedIffOverlap ==
    \A r \in ValidCreateRequests :
        LET conflict ==
                \E a \in appointments :
                    /\ a.status # "cancelled"
                    /\ a.services # {}
                    /\ a.date < CandidateEnd(r)
                    /\ AppointmentEnd(a) > CandidateStart(r)
            check == CreateCheck(appointments, r.client_id, r.date, r.service_ids)
        IN  check = IF conflict THEN "slot_unavailable" ELSE "insert"

\* C4: back-to-back bookings are permitted and overlapping ones are not: a
\* non-cancelled appointment occupying [T0, T) is no conflict for a candidate
\* that starts exactly at T or ends exactly at T0, and a candidate that starts
\* strictly inside [T0, T) is rejected as slot-unavailable.
C4_BackToBack ==
    \A r \in ValidCreateRequests : \A a \in appointments :
        (a.status # "cancelled" /\ a.services # {}) =>
            /\ (CandidateStart(r) = AppointmentEnd(a) \/ CandidateEnd(r) = a.date)
                   => a \notin ConflictQuery(appointments, CandidateStart(r),
                                             CandidateEnd(r))
            /\ (a.date <= CandidateStart(r) /\ CandidateStart(r) < AppointmentEnd(a))
                   => CreateCheck(appointments, r.client_id, r.date, r.service_ids)
                          = "slot_unavailable"

StatusOf(appts, id) == (CHOOSE a \in appts : a.id = id).status

\* the decision of C5 in one state: the cancel of an appointment that is not
\* cancelled, by an authorized actor, goes through when more than 3 hours
\* remain and is refused as too late otherwise
C5_Decision ==
    \A a \in appointments, u \in Users :
        (Authorized(u, a) /\ a.status # "cancelled") =>
            CancelCheck(appointments, a.id, u,
                        make_naive(datetime_now(tz_offset)).wall)
                = IF a.date - now > 3 * 60 THEN "commit" ELSE "too_late"

\* the effect of C5 in one step: such a cancel stores the status 'cancelled'
\* and a cancelation when more than 3 hours remain and changes nothing
\* otherwise
C5_Effect ==
    \A a \in appointments, u \in Users, r \in RequestReasons :
        (Authorized(u, a) /\ a.status # "cancelled" /\ Cancel(a.id, r, u)) =>
            IF a.date - now > 3 * 60
            THEN /\ StatusOf(appointments', a.id) = "cancelled"
                 /\ \E c \in cancelations' \ cancelations :
                        c.appointment_id = a.id /\ c.reason = r
            ELSE UNCHANGED store

\* C5: for an authorized actor and an appointment that is not cancelled,
\* cancel succeeds when the appointment's date minus the current time is
\* strictly greater than 3 hours and fails as too late, changing nothing,
\* when the difference is exactly 3 hours or less.
C5_CancelLeadTime == []C5_Decision /\ [][C5_Effect]_vars

\* the session s takes this step (its request moves on, ends or dies)
Steps(s) == sessions'[s] # sessions[s]

\* C6: a successful cancel sets the status to 'cancelled' and inserts one
\* Cancelation with the given reason and the appointment's id, and the two
\* writes are atomic: every step of a cancel request, a failure between its
\* steps included, commits both writes or none, and after its first commit
\* the request writes nothing more.
C6_CancelAtomic ==
    [][ \A s \in SessionIds :
          /\ (sessions[s].pc = "cancel_commit" /\ Steps(s)) =>
                \/ UNCHANGED store
                \/ /\ RowExists(sessions[s].id)
                   /\ StatusOf(appointments', sessions[s].id) = "cancelled"
                   /\ \A a \in appointments :
                          a.id # sessions[s].id => a \in appointments'
                   /\ Cardinality(cancelations' \ cancelations) = 1
                   /\ cancelations \subseteq cancelations'
                   /\ \A c \in cancelations' \ cancelations :
                          /\ c.appointment_id = sessions[s].id
                          /\ c.reason = sessions[s].reason
          /\ (sessions[s].pc = "cancel_finish" /\ Steps(s)) => UNCHANGED store
      ]_vars

\* C6 witness: a cancel request is past its first commit, with the status
\* and its cancelation both stored
C6_Witness ==
    \E s \in SessionIds :
        /\ sessions[s].pc = "cancel_finish"
        /\ RowExists(sessions[s].id)
        /\ StatusOf(appointments, sessions[s].id) = "cancelled"
        /\ \E c \in cancelations :
               /\ c.id = sessions[s].cancelation_id
               /\ c.appointment_id = sessions[s].id

\* C7: once an appointment is 'completed' or 'cancelled', every call of
\* cancel and of complete on it fails and changes nothing: cancel on a
\* cancelled one as already-cancelled, cancel on a completed one whatever the
\* lead time, complete on a completed one as already-completed, complete on a
\* cancelled one as cannot-complete-cancelled.
C7_TerminalCallsFail ==
    \A a \in appointments : \A u \in Users :
        Terminal(a) =>
            /\ CancelCheck(appointments, a.id, u,
                           make_naive(datetime_now(tz_offset)).wall) # "commit"
            /\ (Authorized(u, a) /\ a.status = "cancelled") =>
                   CancelCheck(appointments, a.id, u,
                               make_naive(datetime_now(tz_offset)).wall)
                       = "already_cancelled"
            /\ CompleteCheck(appointments, a.id, u) # "commit"
            /\ (StaffOrAdmin(u) /\ a.status = "completed") =>
                   CompleteCheck(appointments, a.id, u) = "already_completed"
            /\ (StaffOrAdmin(u) /\ a.status = "cancelled") =>
                   CompleteCheck(appointments, a.id, u) = "cannot_complete_cancelled"

\* C8: no transition leaves 'completed' or 'cancelled': once a stored
\* appointment has one of these statuses, no request changes its status.
C8_NoWayOutOfTerminal ==
    [][ \A a \in appointments :
          (Terminal(a) /\ a.id \in AppointmentIds')
              => StatusOf(appointments', a.id) = a.status ]_vars

\* C9: an appointment's status changes to 'cancelled' only in a step at which
\* more than 3 hours remain between the current time and its date.
C9_CancelledOnlyWithLeadTime ==
    [][ \A a \in appointments :
          ( /\ a.status # "cancelled"
            /\ a.id \in AppointmentIds'
            /\ StatusOf(appointments', a.id) = "cancelled" )
              => a.date - now > 3 * 60 ]_vars

\* C10: each appointment has at most one Cancelation record, under any
\* sequence and interleaving of cancel, update and complete requests.
C10_OneCancelationPerAppointment ==
    \A id \in 1 .. MaxAppointments : Cardinality(CancelationsOf(id)) <= 1

\* C11: every Cancelation record belongs to an appointment whose status is
\* 'cancelled', after any sequence of requests and when a cancel interleaves
\* with a concurrent complete or update of the same appointment.
C11_CancelationOfCancelled ==
    \A c \in cancelations :
        \E a \in appointments :
            a.id = c.appointment_id /\ a.status = "cancelled"

\* the user whose client profile owns the appointment
OwnsAppointment(u, a) ==
    \E c \in Clients : c.id = a.client_id /\ c.user_id = u.id

\* C12: update, delete and cancel of an existing appointment fail as
\* forbidden, and so write nothing, whenever the actor is no admin and is not
\* the user whose client profile owns the appointment, also when user ids
\* and client ids differ.
C12_ForbiddenUnlessOwner ==
    \A a \in appointments : \A u \in Users :
        (u.role # "admin" /\ ~OwnsAppointment(u, a)) =>
            /\ \A p \in RequestPatches :
                   (IsSet(p, "status") => status_allowed(p.status)) =>
                       UpdateCheck(appointments, a.id, p, u) = "forbidden"
            /\ DeleteCheck(appointments, a.id, u) = "forbidden"
            /\ CancelCheck(appointments, a.id, u,
                           make_naive(datetime_now(tz_offset)).wall) = "forbidden"

\* C13: a failure of the notification neither rolls back nor fails the
\* creation: once the conflict check has passed and the appointment is
\* committed, the request returns the created appointment, whether or not
\* the notification was sent.
C13_NotificationFailureTolerated ==
    \A s \in SessionIds :
        sessions[s].pc = "create_notify" => CreateReturn = "created"

\* C14: create validates its inputs before it touches the store: client not
\* found when client_id references no client, no-services when service_ids
\* is empty and, for an existing client and a non-empty service_ids, services
\* not found if and only if some requested id resolves to no Service.
C14_CreateValidation ==
    \A c \in RequestClientIds, d \in RequestDates, s \in RequestServiceIds :
        LET check == CreateCheck(appointments, c, d, s)
        IN  /\ ~ClientExists(c) => check = "client_not_found"
            /\ (ClientExists(c) /\ Len(s) = 0) => check = "no_services"
            /\ (ClientExists(c) /\ Len(s) > 0) =>
                   (check = "services_not_found"
                        <=> ~(Range(s) \subseteq ServiceIds))

\* the instant a datetime denotes, in minutes of the UTC wall clock (a naive
\* datetime is taken as UTC)
UtcMinutes(dt) == dt.wall - (IF dt.aware THEN dt.offset ELSE 0)

\* C15: every appointment persisted by a create has status 'pending', the
\* given client_id and notes, the normalized start_time as its date and
\* exactly the requested services, all resolved and at least one; the create
\* changes no other stored appointment.
C15_CreatePersists ==
    [][ appointments' # appointments /\ next_appointment_id' # next_appointment_id =>
        \A c \in RequestClientIds, d \in RequestDates,
           s \in RequestServiceIds, n \in RequestNotes :
          Create(c, d, s, n) =>
              /\ appointments \subseteq appointments'
              /\ \E row \in appointments' :
                     /\ appointments' = appointments \cup {row}
                     /\ row.id \notin AppointmentIds
                     /\ row.status = "pending"
                     /\ row.client_id = c
                     /\ row.notes = n
                     /\ row.date = UtcMinutes(d)
                     /\ row.services = Range(s)
                     /\ row.services # {}
                     /\ row.services \subseteq ServiceIds
      ]_vars

\* C15 witness: a create with an aware start_time (11:45+01:00) and two
\* services has stored its row next to an earlier appointment
C15_Witness ==
    \E a, b \in appointments :
        /\ a.id # b.id
        /\ b.date = 645 /\ b.services = {1, 2} /\ b.status = "pending"
        /\ b.id > a.id

\* C16: ListBlockedSlots for a requesting user returns exactly one interval
\* [date, date + sum of service durations) for each stored appointment that
\* is 'pending' or 'confirmed' and owned by a client profile other than the
\* requester's own: none of the requester's own appointments, none of a
\* cancelled or completed one.
C16_BlockedSlots ==
    \A u \in Users :
        LET others == { a \in appointments :
                          /\ a.status \in {"pending", "confirmed"}
                          /\ ~OwnsAppointment(u, a) }
            slots == get_blocked_slots(appointments, u)
        IN  /\ DOMAIN slots = { a.id : a \in others }
            /\ \A a \in others :
                   slots[a.id] = [ start |-> isoformat(a.date),
                                   end   |-> isoformat(AppointmentEnd(a)) ]

\* C17: the appointments that count toward the conflict detection of create
\* are exactly the active ones ('pending' or 'confirmed'): a 'completed' or
\* 'cancelled' appointment never causes a rejection, so every appointment
\* that makes create reject a booking is reported by ListBlockedSlots to
\* every user the ownership filter of ListBlockedSlots does not hide it from.
C17_OnlyActiveConflict ==
    \A r \in ValidCreateRequests :
        LET found == ConflictQuery(appointments, CandidateStart(r),
                                   CandidateEnd(r))
        IN  /\ \A a \in found : a.status \in {"pending", "confirmed"}
            /\ \A a \in appointments :
                   ( /\ a.status \in {"pending", "confirmed"}
                     /\ a.services # {}
                     /\ a.date < CandidateEnd(r)
                     /\ AppointmentEnd(a) > CandidateStart(r) ) => a \in found
            /\ \A a \in found : \A u \in Users :
                   a.client_id # u.id =>
                       a.id \in DOMAIN get_blocked_slots(appointments, u)

\* C18: a delete by an authorized actor of any existing appointment, a
\* cancelled one with a Cancelation record included, succeeds (and removes the
\* appointment with its Cancelation); in every reachable state every
\* Cancelation's appointment_id references a stored appointment.
C18_DeleteCascades ==
    /\ \A a \in appointments : \A u \in Users :
           DeleteCheck(appointments, a.id, u) = "commit" =>
               DeleteReturn(cancelations, a.id) = "ok"
    /\ \A c \in cancelations : c.appointment_id \in AppointmentIds

\* C19: every stored appointment's status is one of 'pending', 'confirmed',
\* 'completed', 'cancelled': an update whose patch supplies a status outside
\* these four values, an explicit null included, is rejected as invalid (and
\* so leaves the appointment unchanged).
C19_StatusDomain ==
    /\ \A a \in appointments : a.status \in AllowedStatuses
    /\ \A a \in appointments : \A p \in RequestPatches : \A u \in Users :
           (IsSet(p, "status") /\ p.status \notin AllowedStatuses) =>
               UpdateCheck(appointments, a.id, p, u) = "invalid"

\* C20: start-time normalization is canonical and idempotent:
\* make_naive(make_naive(t)) = make_naive(t), the result is the naive UTC
\* reading of t, and two create requests whose start_time values denote the
\* same instant with different timezone offsets produce the same stored date
\* and the same outcome of the checks against the same store.
C20_Normalization ==
    /\ \A d \in RequestDates :
           /\ make_naive(make_naive(d)) = make_naive(d)
           /\ make_naive(d) = NaiveDate(UtcMinutes(d))
    /\ \A d1, d2 \in RequestDates :
           ( /\ d1.aware /\ d2.aware
             /\ d1.offset # d2.offset
             /\ UtcMinutes(d1) = UtcMinutes(d2) ) =>
               \A c \in RequestClientIds, s \in RequestServiceIds :
                   /\ NewAppointment(next_appointment_id, c, d1, s, NULL).date
                        = NewAppointment(next_appointment_id, c, d2, s, NULL).date
                   /\ CreateCheck(appointments, c, d1, s)
                        = CreateCheck(appointments, c, d2, s)

\* C20 witness: an appointment is stored at 10:45 UTC and the requests for
\* 11:45+01:00 and for 09:45-01:00 with the same service both meet it
C20_Witness ==
    /\ \E a \in appointments : a.date = 645 /\ a.status = "pending"
    /\ CreateCheck(appointments, 2, AwareDate(705, 60), <<1>>) = "slot_unavailable"
    /\ CreateCheck(appointments, 2, AwareDate(585, -60), <<1>>) = "slot_unavailable"

\* C21 in one state: no two stored clients have the same email, and the
\* check of create_client refuses the email of a stored client, whatever the
\* user_id
C21_State ==
    /\ \A c1, c2 \in clients : c1.email = c2.email => c1 = c2
    /\ \A c \in clients : \A u \in RequestUserIds :
           CreateClientCheck(clients, c.email, u) = "email_exists"

\* C21 in one step: a create_client that arrives at its insert with the
\* email of a stored client adds no client
C21_Step ==
    \A s \in SessionIds :
        ( /\ sessions[s].pc = "client_commit"
          /\ Steps(s)
          /\ \E c \in clients : c.email = sessions[s].email )
            => clients' = clients

\* C21: client emails are unique in every reachable state: create_client
\* with an email that already belongs to a stored client fails with the 400
\* of its check regardless of the user_id supplied, and the set of stored
\* clients does not change.
C21_ClientEmailUnique == []C21_State /\ [][C21_Step]_vars

\* C21 witness: a create_client for another user is at its insert while the
\* email it carries has been stored by a request that committed first
C21_Witness ==
    \E s \in SessionIds :
        /\ sessions[s].pc = "client_commit"
        /\ \E c \in clients :
               /\ c.email = sessions[s].email
               /\ c.user_id # sessions[s].user_id
               /\ c \notin SeedClients

\* the least n with n * b >= a, for a >= 0 and b > 0
Ceil(a, b) == CHOOSE n \in 0 .. a : n * b >= a /\ (n = 0 \/ (n - 1) * b < a)

\* C22: get_clients reports page = (skip div limit) + 1 and total_pages =
\* ceil(total / limit) when limit > 0 and some client matches, and
\* total_pages = 1 both when limit = 0 and when no client matches; total is
\* the number of matching clients whatever skip and limit are, and the
\* number of returned items is min(limit, max(0, total - skip)).
C22_Pagination ==
    \A skip \in RequestSkips, limit \in RequestLimits, search \in RequestSearches :
        LET result == get_clients(clients, skip, limit, search)
            total == Cardinality({ c \in clients :
                                     search = <<>> \/ ilike(c.email, search) })
            rest == IF total - skip > 0 THEN total - skip ELSE 0
        IN  /\ result.info.total = total
            /\ (limit > 0 /\ total > 0) =>
                   /\ result.info.page = (skip \div limit) + 1
                   /\ result.info.total_pages = Ceil(total, limit)
            /\ (limit = 0 \/ total = 0) => result.info.total_pages = 1
            /\ Len(result.data) = IF limit < rest THEN limit ELSE rest

\* C23 in one state: no two stored clients have the same user_id
C23_State ==
    \A c1, c2 \in clients : c1.user_id = c2.user_id => c1 = c2

\* C23 in one step: a create_client that arrives at its insert for a user
\* who has a client profile adds no client
C23_Step ==
    \A s \in SessionIds :
        ( /\ sessions[s].pc = "client_commit"
          /\ Steps(s)
          /\ \E c \in clients : c.user_id = sessions[s].user_id )
            => clients' = clients

C24_ServiceCatalog ==
    /\ \A s1, s2 \in services : s1.name = s2.name => s1 = s2
    /\ \A s \in services : CreateServiceCheck(services, s.name) = "name_exists"
    /\ \A s \in services : s.duration > 0

\* C25 in one state: complete on an absent id fails as not found
C25_State ==
    \A id \in RequestAppointmentIds \ AppointmentIds : \A u \in Users :
        StaffOrAdmin(u) => CompleteCheck(appointments, id, u) = "not_found"

\* C25 in one step: complete on a 'pending' or 'confirmed' appointment
\* writes the status 'completed' to that row and nothing else; complete on
\* an absent id writes nothing
C25_Step ==
    store' # store =>
        /\ \A a \in appointments : \A u \in Users :
               ( /\ a.status \in {"pending", "confirmed"}
                 /\ StaffOrAdmin(u)
                 /\ Complete(a.id, u) ) =>
                   /\ appointments' = (appointments \ {a})
                          \cup { [ id |-> a.id, client_id |-> a.client_id,
                                   date |-> a.date, notes |-> a.notes,
                                   services |-> a.services,
                                   status |-> "completed" ] }
                   /\ UNCHANGED <<cancelations, next_appointment_id,
                                  next_cancelation_id>>
        /\ \A id \in RequestAppointmentIds \ AppointmentIds : \A u \in Users :
               ~Complete(id, u)

\* C25: complete on an existing appointment whose status is 'pending' or
\* 'confirmed' sets its status to 'completed' and changes nothing else (its
\* date, client_id, notes and services, every other appointment and the
\* cancelations are unchanged); complete on an absent id fails as not found
\* and changes nothing.
C25_CompleteFrame == []C25_State /\ [][C25_Step]_vars

\* C25 witness: an appointment has been completed next to one that is still
\* pending
C25_Witness ==
    \E a, b \in appointments :
        /\ a.id # b.id
        /\ a.status = "completed"
        /\ b.status = "pending"
        /\ cancelations = {}

\* C26: after a successful update whose patch contains service_ids, the
\* appointment's associated service set equals the given ids (so that its
\* duration and end follow the new services); fields absent from the patch
\* keep their previous values.
C26_UpdateServices ==
    \A a \in appointments : \A u \in Users :
        \A patch \in { p \in RequestPatches : IsSet(p, "service_ids") } :
            ( /\ UpdateCheck(appointments, a.id, patch, u) = "commit"
              /\ UpdateReturn(patch, ApplyPatch(a, patch)) = "ok" ) =>
                LET updated == ApplyPatch(a, patch)
                IN  /\ updated.services = Range(patch.service_ids)
                    /\ AppointmentDuration(updated) =
                           SumDuration(ServicesFound(Range(patch.service_ids)))
                    /\ updated.date = a.date
                    /\ updated.notes = a.notes
                    /\ updated.status = a.status

\* C27: every stored appointment's date is a naive UTC instant: create and
\* an update that sets date both store the timezone-normalized value
\* make_naive(date), so that the conflict check compares candidate and
\* stored dates on the same time scale.
C27_StoredDatesUtc ==
    [][ (appointments' # appointments
           /\ next_appointment_id' = next_appointment_id) =>
          \A a \in appointments : \A u \in Users :
            \A patch \in { p \in RequestPatches :
                             IsSet(p, "date") /\ p.date # None } :
              ( /\ UpdateCheck(appointments, a.id, patch, u) = "commit"
                /\ Update(a.id, patch, u) ) =>
                  \E b \in appointments' :
                      /\ b.id = a.id
                      /\ b.date = make_naive(patch.date[1]).wall ]_vars

\* C28: an appointment's status becomes 'completed' only through a request
\* of an actor whose role is 'staff' or 'admin': no request of a user with
\* role 'client', the owner of the appointment included, gets as far as
\* writing the status 'completed', through complete or through update.
C28_CompletedOnlyByStaff ==
    \A a \in appointments : \A u \in Users :
        (u.role = "client" /\ a.status # "completed") =>
            /\ CompleteCheck(appointments, a.id, u) = "forbidden"
            /\ \A p \in RequestPatches :
                   ( /\ IsSet(p, "status")
                     /\ UpdateCheck(appointments, a.id, p, u) = "commit" ) =>
                       ApplyPatch(a, p).status # "completed"

\* C29: the lead-time decision of cancel measures the distance between the
\* stored UTC date and the current instant on the same time scale: for a
\* fixed real instant and a fixed appointment, cancel gives the same
\* accept / too-late outcome whatever the server's time zone offset is.
C29_LeadTimeZoneFree ==
    \A a \in appointments : \A u \in Users :
        \A o1, o2 \in ServerOffsets :
            CancelCheck(appointments, a.id, u, make_naive(datetime_now(o1)).wall)
                = CancelCheck(appointments, a.id, u,
                              make_naive(datetime_now(o2)).wall)

\* C30: register is all-or-nothing: after any register request, successful
\* or failed, a user with the request's email is stored if and only if a
\* client profile with that user's id is stored; when the client-creation
\* step of register fails, the user it committed is not left behind without
\* a client profile.
C30_RegisterAllOrNothing ==
    [][ \A s \in SessionIds :
          ( /\ sessions[s].pc = "register_client"
            /\ RegisterClient(s)
            /\ sessions'[s] = Idle ) =>
              ( (\E u \in users' : u.email = sessions[s].email)
                  <=> (\E c \in clients' : c.user_id = sessions[s].user_id) )
      ]_vars

====
